---- MODULE Spec2Model ----
(***************************************************************************)
(* Model of the LAQ RAG pipeline: the monolithic menu program (main.py)    *)
(* and the modular command-line front end (cli.py).                        *)
(*                                                                         *)
(* Texts are sequences of one-character strings.  A model response is a    *)
(* sequence of lexemes:                                                    *)
(*    "{" "}"  braces                                                      *)
(*    "q"      the member  "qa_pairs": [...]  of an object                 *)
(*    "5"      a scalar JSON value (alone), or another member of an object *)
(*             (inside braces); as a member it stands for "laq_number"     *)
(*    "x"      prose: never part of valid JSON                             *)
(*    " "      white space                                                 *)
(* Distances and similarities are fixed-point integers: a distance in      *)
(* units of 10^-5, a similarity in units of 10^-2 (percent hundredths).    *)
(***************************************************************************)
EXTENDS Integers, Sequences, FiniteSets, TLC

\* ------------------------------------------------------------------ bounds
MaxPairs == 2
MaxRawLen == 4
MaxQueryLen == 2
DistSpan == 6

\* the lengths of a pair's question and answer lie within TextSpan of 0 or of
\* the metadata limit
TextSpan == 2

\* -------------------------------------------------------- program constants
MetaLimit == 500
SearchNResults == 5
ChatNResults == 3
StrongThreshold == 8000
ModerateThreshold == 6000

VARIABLES
  program,     \* "main" (main.py) or "cli" (cli.py): which program is running
  running,     \* the menu loop is still running
  exists,      \* the collection "laqs" exists in the vector store
  stale,       \* the program's collection handle refers to a deleted collection
  docs,        \* ids stored in the collection
  cleared,     \* history: a clear has deleted the collection since start-up
  sinceClear,  \* history: ids whose add succeeded since the last delete
  op,          \* the handler that ran last
  inp,         \* what that handler read (user input, collaborators' answers)
  out,         \* what that handler reported
  calls        \* the collaborator calls that handler made, in order

vars == <<program, running, exists, stale, docs, cleared, sinceClear, op, inp, out, calls>>

\* ------------------------------------------------------------ text helpers
SeqsUpTo(S, n) == UNION {[1..k -> S] : k \in 0..n}

WhiteSpace == {" "}

RECURSIVE LStrip(_)
LStrip(s) == IF s # <<>> /\ Head(s) \in WhiteSpace THEN LStrip(Tail(s)) ELSE s

RECURSIVE RStrip(_)
RStrip(s) ==
  IF s # <<>> /\ s[Len(s)] \in WhiteSpace THEN RStrip(SubSeq(s, 1, Len(s) - 1)) ELSE s

\* str.strip()
strip(s) == RStrip(LStrip(s))

LowerChar(c) ==
  CASE c = "Y" -> "y" [] c = "E" -> "e" [] c = "S" -> "s" [] c = "N" -> "n"
    [] c = "O" -> "o" [] OTHER -> c

\* str.lower()
lower(s) == [i \in 1..Len(s) |-> LowerChar(s[i])]

\* ------------------------------------------------------- json.loads, re.search
None == [kind |-> "None", empty |-> TRUE, qa |-> FALSE, num |-> FALSE, n |-> 0]
Scalar == [kind |-> "scalar", empty |-> FALSE, qa |-> FALSE, num |-> FALSE, n |-> 0]

Count(t, c, k) == Cardinality({i \in 1..k : t[i] = c})
Depth(t, k) == Count(t, "{", k) - Count(t, "}", k)

\* t (white space removed) is one JSON object: a brace group that closes only at
\* its last lexeme, holding members and nested objects
IsObject(t) ==
  /\ Len(t) >= 2
  /\ t[1] = "{"
  /\ t[Len(t)] = "}"
  /\ \A i \in 1..Len(t) : t[i] \in {"{", "}", "q", "5"}
  /\ \A k \in 1..(Len(t) - 1) : Depth(t, k) >= 1
  /\ Depth(t, Len(t)) = 0

\* the members of the outermost object
HasMember(t, c) == \E i \in 2..Len(t) : t[i] = c /\ Depth(t, i - 1) = 1

NoWs(s) == SelectSeq(s, LAMBDA c : c \notin WhiteSpace)

\* json.loads(s): the value, or "error" for json.JSONDecodeError.  n is the number
\* of pairs the response's qa_pairs list holds (read only when the member is there)
json_loads(s, n) ==
  LET t == NoWs(s) IN
  IF t = <<"5">> THEN Scalar
  ELSE IF IsObject(t)
    THEN [kind |-> "dict", empty |-> (Len(t) = 2), qa |-> HasMember(t, "q"),
          num |-> HasMember(t, "5"), n |-> IF HasMember(t, "q") THEN n ELSE 0]
    ELSE [kind |-> "error", empty |-> TRUE, qa |-> FALSE, num |-> FALSE, n |-> 0]

\* re.search(r"\{.*\}", s, re.DOTALL): greedy, from the first "{" to the last "}"
Braces(s, c) == {i \in 1..Len(s) : s[i] = c}
Min(S) == CHOOSE x \in S : \A y \in S : x <= y
Max(S) == CHOOSE x \in S : \A y \in S : x >= y
HasJsonMatch(s) ==
  /\ Braces(s, "{") # {}
  /\ Braces(s, "}") # {}
  /\ Min(Braces(s, "{")) < Max(Braces(s, "}"))
JsonMatch(s) == SubSeq(s, Min(Braces(s, "{")), Max(Braces(s, "}")))

\* structure_laqs_with_mistral, from the model's answer on: resp is what
\* ollama.generate did (raises, or a response text whose qa_pairs holds n pairs)
structure_laqs_with_mistral(resp) ==
  IF resp.raises THEN None
  ELSE
    LET raw_text == strip(resp.raw)
        strict == json_loads(raw_text, resp.n)
    IN IF strict.kind # "error" THEN strict
       ELSE IF HasJsonMatch(raw_text)
         THEN LET block == json_loads(JsonMatch(raw_text), resp.n)
              IN IF block.kind # "error" THEN block ELSE None
         ELSE None

\* Python truthiness of what structure_laqs_with_mistral returned
Truthy(v) == v.kind = "scalar" \/ (v.kind = "dict" /\ ~v.empty)

Lexemes == {"{", "}", "q", "5", "x", " "}
RawTexts == SeqsUpTo(Lexemes, MaxRawLen)

\* ----------------------------------------------------------- input / output
NoInp == [path_ok |-> FALSE, pdf |-> <<>>, conv |-> "none", raw |-> <<>>,
          laq |-> None, confirm |-> <<>>, embFail |-> {}, addFail |-> {},
          query |-> <<>>, n |-> 0, d1 |-> 0, d2 |-> 0,
          question |-> <<>>, answer |-> <<>>]
NoOut == [msg |-> "none", stored |-> 0, attempted |-> 0, skipped |-> {},
          added |-> {}, ids |-> {}, delta |-> 0, embeddings |-> <<>>, results |-> <<>>,
          embed_input |-> <<>>, metadata |-> [question |-> <<>>, answer |-> <<>>],
          document |-> <<>>]

\* ------------------------------------------------------------- collaborators
\* pathlib.Path(name).stem: the name without its last suffix
LastDot(s) == IF Braces(s, ".") = {} THEN 0 ELSE Max(Braces(s, "."))
Stem(s) == IF 1 < LastDot(s) /\ LastDot(s) < Len(s) THEN SubSeq(s, 1, LastDot(s) - 1) ELSE s

PdfNames == {<<"a", ".", "p">>}

\* laq_data.get('laq_number', 'unknown')
LaqNum(laq) == IF laq.num THEN "5" ELSE "unknown"

\* f"{Path(pdf_name).stem}_{laq_num}_qa{idx}"
DocId(pdf_name, laq_num, idx) == <<Stem(pdf_name), laq_num, idx>>

\* the answers to confirmation prompts
Yes == <<"y", "e", "s">>
ConfirmInputs == {Yes, <<" ", "Y", "E", "S">>, <<"n", "o">>, <<"y">>, <<>>}

\* confirm = input(...).strip().lower(); confirm == "yes"
Confirmed_Mut(confirm) ==
  strip(confirm) # <<>> /\ Head(lower(strip(confirm))) = "y"
Confirmed(confirm) == lower(strip(confirm)) = Yes

\* the model responses the menu program is run against
Affixes == {<<>>, <<"x">>, <<" ">>, <<"{">>}
Cores == {<<>>, <<"5">>, <<"{", "}">>, <<"{", "q", "}">>, <<"{", "5", "}">>,
          <<"{", "q">>}
ModelResponses == {pre \o core \o post : pre \in Affixes, core \in Cores, post \in Affixes}

Queries == SeqsUpTo({" ", "a"}, MaxQueryLen)

Call(c, i) == [c |-> c, i |-> i]

\* collection.add / collection.query / collection.count raise when the handle is
\* stale (the collection it names was deleted) or when the store fails
HandleOk == exists /\ ~stale

\* ------------------------------------------------------- store_in_ChromaDB
\* embed_text(text): the vector, or [] when ollama.embed raised; fails says
\* whether the embedding service fails for this text
embed_text(fails) == IF fails THEN <<>> ELSE <<1>>

\* the pairs the loop hands to collection.add: "if not embedding: continue"
Embedded_Mut(n, embFail) == 1..n
Embedded(n, embFail) == {i \in 1..n : embed_text(i \in embFail) # <<>>}

\* the pairs whose collection.add returned
Added(n, embFail, addFail) ==
  {i \in Embedded(n, embFail) : HandleOk /\ i \notin addFail}

RECURSIVE StoreCalls(_, _, _)
StoreCalls(k, n, embFail) ==
  IF k > n THEN <<>>
  ELSE <<Call("embed", k)>>
       \o (IF k \in Embedded(n, embFail) THEN <<Call("add", k)>> ELSE <<>>)
       \o StoreCalls(k + 1, n, embFail)

\* the report of store_in_ChromaDB: success_count of len(qa_pairs)
StoreReport_Mut(n, embFail, addFail) ==
  [NoOut EXCEPT !.msg = "stored",
     !.embeddings = [i \in 1..n |-> embed_text(i \in embFail)],
     !.stored = Cardinality(Added(n, embFail, addFail)),
     !.attempted = n,
     !.skipped = {i \in 1..n : i \in embFail},
     !.added = Added(n, embFail, addFail)]
StoreReport(n, embFail, addFail) ==
  IF n = 0 THEN [NoOut EXCEPT !.msg = "no_pairs"]
  ELSE [NoOut EXCEPT !.msg = "stored",
          !.embeddings = [i \in 1..n |-> embed_text(i \in embFail)],
          !.stored = Cardinality(Added(n, embFail, addFail)),
          !.attempted = n,
          !.skipped = {i \in 1..n : i \in embFail},
          !.added = Added(n, embFail, addFail)]

StoreIds(pdf_name, laq, n, embFail, addFail) ==
  {DocId(pdf_name, LaqNum(laq), i) : i \in Added(n, embFail, addFail)}

\* doc_id of each pair added: idx is the pair's place in laq_data['qa_pairs']
StoreDocIds(pdf_name, laq, n, embFail, addFail) ==
  {<<i, DocId(pdf_name, LaqNum(laq), i)>> : i \in Added(n, embFail, addFail)}

\* ------------------------------------------------------------------ main.py
\* what ollama.generate does in the menu program's runs, with the number of
\* pairs the response's qa_pairs list holds
Responses ==
  {[raises |-> TRUE, raw |-> <<>>, n |-> 0]}
  \cup {[raises |-> FALSE, raw |-> raw, n |-> n] : raw \in ModelResponses, n \in 0..MaxPairs}

\* what structure_laqs_with_mistral returns over those responses
CoercedValues == {structure_laqs_with_mistral(resp) : resp \in Responses}

\* where upload_pdf stops before the confirmation prompt: its early returns,
\* and the AttributeError of laq_data.get(...) on a value that is no dict, which
\* nothing between there and main() catches
upload_pdf_stage_Mut(path_ok, conv, laq_data) ==
  IF ~path_ok THEN "file_not_found"
  ELSE IF ~Truthy(laq_data) THEN "no_record"
  ELSE IF laq_data.kind # "dict" THEN "crash"
  ELSE "confirm"
upload_pdf_stage(path_ok, conv, laq_data) ==
  IF ~path_ok THEN "file_not_found"
  ELSE IF conv # "text" THEN "conversion_failed"
  ELSE IF ~Truthy(laq_data) THEN "no_record"
  ELSE IF laq_data.kind # "dict" THEN "crash"
  ELSE "confirm"

\* the collaborator calls upload_pdf makes up to that point
upload_pdf_calls(stage) ==
  IF stage = "file_not_found" THEN <<>>
  ELSE IF stage = "conversion_failed" THEN <<Call("convert", 0)>>
  ELSE <<Call("convert", 0), Call("generate", 0)>>

\* the inputs a run consumes: the model is asked only about a converted text
UploadInputs ==
  {<<FALSE, "none", None>>}
  \cup {<<TRUE, conv, None>> : conv \in {"empty", "raise"}}
  \cup {<<TRUE, "text", v>> : v \in CoercedValues}

\* upload_pdf(): the whole handler
upload_pdf ==
  /\ program = "main"
  /\ running
  /\ op' = "upload"
  /\ \E u \in UploadInputs, pdf_name \in PdfNames :
       LET laq_data == u[3]
           stage == upload_pdf_stage(u[1], u[2], laq_data)
           base == [NoInp EXCEPT !.path_ok = u[1], !.pdf = pdf_name, !.conv = u[2],
                      !.laq = laq_data]
           pre == upload_pdf_calls(stage)
       IN
       IF stage # "confirm" THEN
         /\ inp' = base
         /\ out' = [NoOut EXCEPT !.msg = stage]
         /\ calls' = pre
         /\ running' = (stage # "crash")
         /\ UNCHANGED <<docs, sinceClear>>
       ELSE \E confirm \in ConfirmInputs :
         IF ~Confirmed(confirm) THEN
           /\ inp' = [base EXCEPT !.confirm = confirm]
           /\ out' = [NoOut EXCEPT !.msg = "not_stored"]
           /\ calls' = pre
           /\ UNCHANGED <<running, docs, sinceClear>>
         ELSE \E embFail \in SUBSET (1..laq_data.n) :
           \E addFail \in SUBSET ((1..laq_data.n) \ embFail) :
             LET ids == StoreIds(pdf_name, laq_data, laq_data.n, embFail, addFail) IN
             /\ inp' = [base EXCEPT !.confirm = confirm, !.embFail = embFail,
                          !.addFail = addFail]
             /\ out' = [StoreReport(laq_data.n, embFail, addFail) EXCEPT
                          !.ids = StoreDocIds(pdf_name, laq_data, laq_data.n, embFail, addFail),
                          !.delta = Cardinality(docs \cup ids) - Cardinality(docs)]
             /\ calls' = pre \o StoreCalls(1, laq_data.n, embFail)
             /\ docs' = docs \cup ids
             /\ sinceClear' = sinceClear \cup ids
             /\ UNCHANGED running
  /\ UNCHANGED <<program, exists, stale, cleared>>

\* round(x, 2) of x given in units of 10^-3, in units of 10^-2: to the nearest,
\* a tie to the even neighbour
Round2(x) ==
  LET q == x \div 10
      r == x % 10
  IN IF r < 5 THEN q
     ELSE IF r > 5 THEN q + 1
     ELSE IF q % 2 = 0 THEN q ELSE q + 1

\* score = round((1 - dist) * 100, 2)
Score_Mut(dist) == Round2((dist - 100000))
Score(dist) == Round2(100000 - dist)

\* the match quality of a score
Quality_Mut(score) ==
  IF score > StrongThreshold THEN "strong"
  ELSE IF score > ModerateThreshold THEN "moderate"
  ELSE "weak"
Quality(score) ==
  IF score >= StrongThreshold THEN "strong"
  ELSE IF score >= ModerateThreshold THEN "moderate"
  ELSE "weak"

\* the distances the vector store answers with in the menu program's runs
SearchDistances == {15000, 40000, 40001}

\* collection.query(n_results = k): the k nearest of the stored ids (all of
\* them when fewer are stored), nearest first
QueryHits(k) ==
  {H \in SUBSET docs : Cardinality(H) = (IF Cardinality(docs) < k THEN Cardinality(docs) ELSE k)}

RECURSIVE SortHits(_, _)
SortHits(H, dist) ==
  IF H = {} THEN <<>>
  ELSE LET h == CHOOSE h \in H : \A g \in H : dist[h] <= dist[g]
       IN <<h>> \o SortHits(H \ {h}, dist)

\* the result loop of search_laq
SearchResults(ids, dist) ==
  [i \in 1..Len(ids) |->
     [id |-> ids[i], score |-> Score(dist[ids[i]]), quality |-> Quality(Score(dist[ids[i]]))]]

\* the query a search or chat goes on with: input(...).strip(), refused when empty
QueryAccepted_Mut(query) == query # <<>>
QueryAccepted(query) == strip(query) # <<>>

\* search_laq(): the whole handler
search_laq ==
  /\ program = "main"
  /\ running
  /\ op' = "search"
  /\ \E query \in Queries, embFails \in BOOLEAN, queryRaises \in BOOLEAN :
       /\ inp' = [NoInp EXCEPT !.query = query]
       /\ IF ~QueryAccepted(query) THEN
            /\ out' = [NoOut EXCEPT !.msg = "empty_query"]
            /\ calls' = <<>>
          ELSE IF embed_text(embFails) = <<>> THEN
            /\ out' = [NoOut EXCEPT !.msg = "no_embedding"]
            /\ calls' = <<Call("embed", 0)>>
          ELSE IF ~HandleOk \/ queryRaises THEN
            /\ out' = [NoOut EXCEPT !.msg = "error"]
            /\ calls' = <<Call("embed", 0), Call("query", 0)>>
          ELSE \E H \in QueryHits(SearchNResults) : \E dist \in [H -> SearchDistances] :
            /\ out' = IF H = {} THEN [NoOut EXCEPT !.msg = "no_results"]
                      ELSE [NoOut EXCEPT !.msg = "results",
                              !.results = SearchResults(SortHits(H, dist), dist)]
            /\ calls' = <<Call("embed", 0), Call("query", 0)>>
  /\ UNCHANGED <<program, running, exists, stale, docs, cleared, sinceClear>>

\* chat_laq(): the whole handler
chat_laq ==
  /\ program = "main"
  /\ running
  /\ op' = "chat"
  /\ \E query \in Queries, embFails \in BOOLEAN, queryRaises \in BOOLEAN,
        genRaises \in BOOLEAN :
       /\ inp' = [NoInp EXCEPT !.query = query]
       /\ IF ~QueryAccepted(query) THEN
            /\ out' = [NoOut EXCEPT !.msg = "empty_query"]
            /\ calls' = <<>>
          ELSE IF embed_text(embFails) = <<>> THEN
            /\ out' = [NoOut EXCEPT !.msg = "no_embedding"]
            /\ calls' = <<Call("embed", 0)>>
          ELSE IF ~HandleOk \/ queryRaises THEN
            /\ out' = [NoOut EXCEPT !.msg = "error"]
            /\ calls' = <<Call("embed", 0), Call("query", 0)>>
          ELSE \E H \in QueryHits(ChatNResults) :
            IF H = {} THEN
              /\ out' = [NoOut EXCEPT !.msg = "no_results"]
              /\ calls' = <<Call("embed", 0), Call("query", 0)>>
            ELSE
              /\ out' = [NoOut EXCEPT !.msg = IF genRaises THEN "error" ELSE "answer"]
              /\ calls' = <<Call("embed", 0), Call("query", 0), Call("generate", 0)>>
  /\ UNCHANGED <<program, running, exists, stale, docs, cleared, sinceClear>>

\* clear_db(): the whole handler.  delete_collection raises when the collection
\* does not exist or the store fails; get_or_create_collection raises when the
\* store fails, and then the global handle still names the deleted collection
clear_db ==
  /\ program = "main"
  /\ running
  /\ op' = "clear"
  /\ \E confirm \in ConfirmInputs, deleteRaises \in BOOLEAN, createRaises \in BOOLEAN :
       /\ inp' = [NoInp EXCEPT !.confirm = confirm]
       /\ IF ~Confirmed(confirm) THEN
            /\ out' = [NoOut EXCEPT !.msg = "cancelled"]
            /\ calls' = <<>>
            /\ UNCHANGED <<exists, stale, docs, cleared, sinceClear>>
          ELSE IF ~exists \/ deleteRaises THEN
            /\ out' = [NoOut EXCEPT !.msg = "error"]
            /\ calls' = <<Call("delete", 0)>>
            /\ UNCHANGED <<exists, stale, docs, cleared, sinceClear>>
          ELSE IF createRaises THEN
            /\ out' = [NoOut EXCEPT !.msg = "error"]
            /\ calls' = <<Call("delete", 0), Call("create", 0)>>
            /\ exists' = FALSE
            /\ stale' = TRUE
            /\ docs' = {}
            /\ cleared' = TRUE
            /\ sinceClear' = {}
          ELSE
            /\ out' = [NoOut EXCEPT !.msg = "cleared"]
            /\ calls' = <<Call("delete", 0), Call("create", 0)>>
            /\ exists' = TRUE
            /\ stale' = FALSE
            /\ docs' = {}
            /\ cleared' = TRUE
            /\ sinceClear' = {}
  /\ UNCHANGED <<program, running>>

\* main(): choice "5", and any other input
main_exit ==
  /\ program = "main"
  /\ running
  /\ op' = "exit"
  /\ running' = FALSE
  /\ inp' = NoInp
  /\ out' = [NoOut EXCEPT !.msg = "goodbye"]
  /\ calls' = <<>>
  /\ UNCHANGED <<program, exists, stale, docs, cleared, sinceClear>>

\* main(): KeyboardInterrupt at the menu's input(), which nothing catches
main_interrupt ==
  /\ program = "main"
  /\ running
  /\ op' = "interrupt"
  /\ running' = FALSE
  /\ inp' = NoInp
  /\ out' = [NoOut EXCEPT !.msg = "interrupted"]
  /\ calls' = <<>>
  /\ UNCHANGED <<program, exists, stale, docs, cleared, sinceClear>>

main_invalid ==
  /\ program = "main"
  /\ running
  /\ op' = "invalid"
  /\ inp' = NoInp
  /\ out' = [NoOut EXCEPT !.msg = "invalid_choice"]
  /\ calls' = <<>>
  /\ UNCHANGED <<program, running, exists, stale, docs, cleared, sinceClear>>

\* ------------------------------------------------------------------- cli.py
\* PDFProcessor.process_pdf: conversion, the model and the coercion of its
\* response; a missing file, no text, a response that is no record or a record
\* without pairs raise PDFProcessingError
PDFProcessor_process_pdf(path_ok, conv, laq) ==
  IF path_ok /\ conv = "text" /\ laq.kind = "dict" /\ laq.n >= 1
    THEN laq ELSE [None EXCEPT !.kind = "PDFProcessingError"]

\* EmbeddingService.embed_text: the vector, or raises EmbeddingError
EmbeddingService_embed_text(fails) == IF fails THEN "EmbeddingError" ELSE <<1>>

\* the embedding loop of CLI.upload_pdf: one entry per pair, [] for a failure
CliEmbeddingsList_Mut(n, embFail) ==
  LET ok == {i \in 1..n : i \notin embFail}
  IN [k \in 1..Cardinality(ok) |-> <<1>>]
CliEmbeddingsList(n, embFail) ==
  [i \in 1..n |->
     IF EmbeddingService_embed_text(i \in embFail) = "EmbeddingError"
       THEN <<>> ELSE EmbeddingService_embed_text(i \in embFail)]

\* "Filter out failed embeddings": the pairs zip() keeps, by their index
CliValid_Mut(embeddings_list) == 1..Len(embeddings_list)
CliValid(embeddings_list) ==
  {i \in 1..Len(embeddings_list) : embeddings_list[i] # <<>>}

\* the 1-based place of pair i in valid_qa_pairs
CliPlace(valid, i) == Cardinality({j \in valid : j <= i})

\* LAQDatabase.store_qa_pairs: one add per pair of the list it is given, in
\* order; the first add that fails raises DatabaseError and the earlier adds stay
CliAdded(valid, addFail) ==
  {i \in valid : HandleOk /\ \A j \in valid : j <= i => j \notin addFail}

CliStoreRaises(valid, addFail) == ~HandleOk \/ (valid \cap addFail) # {}

RECURSIVE CliStoreCalls(_, _, _)
CliStoreCalls(k, valid, addFail) ==
  IF k > Cardinality(valid) THEN <<>>
  ELSE LET i == CHOOSE i \in valid : CliPlace(valid, i) = k
       IN <<Call("add", k)>>
          \o (IF ~HandleOk \/ i \in addFail THEN <<>> ELSE CliStoreCalls(k + 1, valid, addFail))

CliStoreIds(pdf_name, laq, valid, addFail) ==
  {DocId(pdf_name, LaqNum(laq), CliPlace(valid, i)) : i \in CliAdded(valid, addFail)}

\* the id of each pair added: the store numbers the pairs of the list it is
\* given, and CLI.upload_pdf gives it valid_qa_pairs
CliStoreDocIds(pdf_name, laq, valid, addFail) ==
  {<<i, DocId(pdf_name, LaqNum(laq), CliPlace(valid, i))>> : i \in CliAdded(valid, addFail)}

\* CLI.upload_pdf(): the whole handler
CLI_upload_pdf ==
  /\ program = "cli"
  /\ running
  /\ op' = "upload"
  /\ \E u \in UploadInputs, pdf_name \in PdfNames :
       LET laq_data == PDFProcessor_process_pdf(u[1], u[2], u[3])
           base == [NoInp EXCEPT !.path_ok = u[1], !.pdf = pdf_name, !.conv = u[2],
                      !.laq = u[3]]
           pre == <<Call("process_pdf", 0)>>
       IN
       IF laq_data.kind = "PDFProcessingError" THEN
         /\ inp' = base
         /\ out' = [NoOut EXCEPT !.msg = "pdf_processing_error"]
         /\ calls' = pre
         /\ UNCHANGED <<docs, sinceClear>>
       ELSE \E confirm \in ConfirmInputs :
         IF ~Confirmed(confirm) THEN
           /\ inp' = [base EXCEPT !.confirm = confirm]
           /\ out' = [NoOut EXCEPT !.msg = "not_stored"]
           /\ calls' = pre
           /\ UNCHANGED <<docs, sinceClear>>
         ELSE \E embFail \in SUBSET (1..laq_data.n) :
           LET embeddings_list == CliEmbeddingsList(laq_data.n, embFail)
               valid == CliValid(embeddings_list)
               embedCalls == [i \in 1..laq_data.n |-> Call("embed", i)]
           IN
           IF valid = {} THEN
             /\ inp' = [base EXCEPT !.confirm = confirm, !.embFail = embFail]
             /\ out' = [NoOut EXCEPT !.msg = "no_valid_embeddings",
                          !.embeddings = embeddings_list,
                          !.attempted = laq_data.n, !.skipped = embFail]
             /\ calls' = pre \o embedCalls
             /\ UNCHANGED <<docs, sinceClear>>
           ELSE \E addFail \in SUBSET valid :
             /\ inp' = [base EXCEPT !.confirm = confirm, !.embFail = embFail,
                          !.addFail = addFail]
             /\ out' = [NoOut EXCEPT
                          !.msg = IF CliStoreRaises(valid, addFail)
                                    THEN "database_error" ELSE "stored",
                          !.embeddings = embeddings_list,
                          !.stored = IF CliStoreRaises(valid, addFail)
                                       THEN 0 ELSE Cardinality(CliAdded(valid, addFail)),
                          !.attempted = laq_data.n,
                          !.skipped = embFail,
                          !.added = CliAdded(valid, addFail),
                          !.ids = CliStoreDocIds(pdf_name, laq_data, valid, addFail),
                          !.delta = Cardinality(docs \cup CliStoreIds(pdf_name, laq_data, valid, addFail))
                                    - Cardinality(docs)]
             /\ calls' = pre \o embedCalls \o CliStoreCalls(1, valid, addFail)
             /\ docs' = docs \cup CliStoreIds(pdf_name, laq_data, valid, addFail)
             /\ sinceClear' = sinceClear \cup CliStoreIds(pdf_name, laq_data, valid, addFail)
  /\ UNCHANGED <<program, running, exists, stale, cleared>>

\* RAGService.search / RAGService.chat: embed the query, query the store, rank;
\* any failure raises RAGError
RAGService_results(ids, dist) == SearchResults(ids, dist)

\* CLI.search_laq(): the whole handler
CLI_search_laq ==
  /\ program = "cli"
  /\ running
  /\ op' = "search"
  /\ \E query \in Queries, embFails \in BOOLEAN, queryRaises \in BOOLEAN :
       /\ inp' = [NoInp EXCEPT !.query = query]
       /\ IF ~QueryAccepted(query) THEN
            /\ out' = [NoOut EXCEPT !.msg = "empty_query"]
            /\ calls' = <<>>
          ELSE IF EmbeddingService_embed_text(embFails) = "EmbeddingError" THEN
            /\ out' = [NoOut EXCEPT !.msg = "error"]
            /\ calls' = <<Call("embed", 0)>>
          ELSE IF ~HandleOk \/ queryRaises THEN
            /\ out' = [NoOut EXCEPT !.msg = "error"]
            /\ calls' = <<Call("embed", 0), Call("query", 0)>>
          ELSE \E H \in QueryHits(SearchNResults) : \E dist \in [H -> SearchDistances] :
            /\ out' = IF H = {} THEN [NoOut EXCEPT !.msg = "no_results"]
                      ELSE [NoOut EXCEPT !.msg = "results",
                              !.results = RAGService_results(SortHits(H, dist), dist)]
            /\ calls' = <<Call("embed", 0), Call("query", 0)>>
  /\ UNCHANGED <<program, running, exists, stale, docs, cleared, sinceClear>>

\* CLI.chat_laq(): the whole handler
CLI_chat_laq ==
  /\ program = "cli"
  /\ running
  /\ op' = "chat"
  /\ \E query \in Queries, embFails \in BOOLEAN, queryRaises \in BOOLEAN,
        genRaises \in BOOLEAN :
       /\ inp' = [NoInp EXCEPT !.query = query]
       /\ IF ~QueryAccepted(query) THEN
            /\ out' = [NoOut EXCEPT !.msg = "empty_query"]
            /\ calls' = <<>>
          ELSE IF EmbeddingService_embed_text(embFails) = "EmbeddingError" THEN
            /\ out' = [NoOut EXCEPT !.msg = "error"]
            /\ calls' = <<Call("embed", 0)>>
          ELSE IF ~HandleOk \/ queryRaises THEN
            /\ out' = [NoOut EXCEPT !.msg = "error"]
            /\ calls' = <<Call("embed", 0), Call("query", 0)>>
          ELSE
            /\ out' = [NoOut EXCEPT !.msg = IF genRaises THEN "error" ELSE "answer"]
            /\ calls' = <<Call("embed", 0), Call("query", 0), Call("generate", 0)>>
  /\ UNCHANGED <<program, running, exists, stale, docs, cleared, sinceClear>>

\* CLI.database_info(): the whole handler
CLI_database_info ==
  /\ program = "cli"
  /\ running
  /\ op' = "info"
  /\ \E countRaises \in BOOLEAN :
       /\ inp' = NoInp
       /\ out' = IF ~HandleOk \/ countRaises THEN [NoOut EXCEPT !.msg = "error"]
                 ELSE [NoOut EXCEPT !.msg = "info", !.stored = Cardinality(docs)]
       /\ calls' = <<Call("count", 0)>>
  /\ UNCHANGED <<program, running, exists, stale, docs, cleared, sinceClear>>

\* LAQDatabase.clear: delete and re-create as one operation of the store; a
\* failure raises DatabaseError and leaves the collection as it was
LAQDatabase_clear(clearRaises) == IF clearRaises THEN docs ELSE {}

\* CLI.clear_database(): the whole handler
CLI_clear_database ==
  /\ program = "cli"
  /\ running
  /\ op' = "clear"
  /\ \E confirm \in ConfirmInputs, clearRaises \in BOOLEAN :
       /\ inp' = [NoInp EXCEPT !.confirm = confirm]
       /\ IF ~Confirmed(confirm) THEN
            /\ out' = [NoOut EXCEPT !.msg = "cancelled"]
            /\ calls' = <<>>
            /\ UNCHANGED <<docs, cleared, sinceClear>>
          ELSE
            /\ out' = [NoOut EXCEPT !.msg = IF clearRaises THEN "error" ELSE "cleared"]
            /\ calls' = <<Call("clear", 0)>>
            /\ docs' = LAQDatabase_clear(clearRaises)
            /\ cleared' = (cleared \/ ~clearRaises)
            /\ sinceClear' = IF clearRaises THEN sinceClear ELSE {}
  /\ UNCHANGED <<program, running, exists, stale>>

\* CLI.run(): choice "6", and any other input
CLI_exit ==
  /\ program = "cli"
  /\ running
  /\ op' = "exit"
  /\ running' = FALSE
  /\ inp' = NoInp
  /\ out' = [NoOut EXCEPT !.msg = "goodbye"]
  /\ calls' = <<>>
  /\ UNCHANGED <<program, exists, stale, docs, cleared, sinceClear>>

\* CLI.run(): KeyboardInterrupt at the menu's input(): goodbye and break
CLI_interrupt ==
  /\ program = "cli"
  /\ running
  /\ op' = "interrupt"
  /\ running' = FALSE
  /\ inp' = NoInp
  /\ out' = [NoOut EXCEPT !.msg = "interrupted"]
  /\ calls' = <<>>
  /\ UNCHANGED <<program, exists, stale, docs, cleared, sinceClear>>

CLI_invalid ==
  /\ program = "cli"
  /\ running
  /\ op' = "invalid"
  /\ inp' = NoInp
  /\ out' = [NoOut EXCEPT !.msg = "invalid_choice"]
  /\ calls' = <<>>
  /\ UNCHANGED <<program, running, exists, stale, docs, cleared, sinceClear>>

\* the collection as start-up finds it: get_or_create_collection on the
\* persisted store, empty or holding what an earlier run stored
Init ==
  /\ program \in {"main", "cli"}
  /\ running = TRUE
  /\ exists = TRUE
  /\ stale = FALSE
  /\ docs \in {{}, {DocId(<<"a", ".", "p">>, "unknown", 1)}}
  /\ cleared = FALSE
  /\ sinceClear = {}
  /\ op = "init"
  /\ inp = NoInp
  /\ out = NoOut
  /\ calls = <<>>

Next ==
  \/ upload_pdf
  \/ search_laq
  \/ chat_laq
  \/ clear_db
  \/ main_exit
  \/ main_interrupt
  \/ main_invalid
  \/ CLI_upload_pdf
  \/ CLI_search_laq
  \/ CLI_chat_laq
  \/ CLI_database_info
  \/ CLI_clear_database
  \/ CLI_exit
  \/ CLI_interrupt
  \/ CLI_invalid

Spec == Init /\ [][Next]_vars

\* ---------------------------------------------- ranking as a pure function
Anchors == {0, 5000, 15000, 20000, 40000, 100000, 200000}
Distances == {a + k : a \in Anchors, k \in (0 - DistSpan)..DistSpan}

InitRank ==
  /\ program = "main"
  /\ running = TRUE
  /\ exists = TRUE
  /\ stale = FALSE
  /\ docs = {}
  /\ cleared = FALSE
  /\ sinceClear = {}
  /\ op = "init"
  /\ \E d1 \in Distances, d2 \in Distances : inp = [NoInp EXCEPT !.d1 = d1, !.d2 = d2]
  /\ out = NoOut
  /\ calls = <<>>

\* the result loop of search_laq over two hits at distances d1 and d2
Rank ==
  /\ op = "init"
  /\ op' = "rank"
  /\ out' = [NoOut EXCEPT !.msg = "results",
               !.results = SearchResults(<<1, 2>>, <<inp.d1, inp.d2>>)]
  /\ UNCHANGED <<program, running, exists, stale, docs, cleared, sinceClear, inp, calls>>

NextRank == Rank

SpecRank == InitRank /\ [][NextRank]_vars

\* ------------------------------------------------- coercion as a pure function
InitCoerce ==
  /\ program = "main"
  /\ running = TRUE
  /\ exists = TRUE
  /\ stale = FALSE
  /\ docs = {}
  /\ cleared = FALSE
  /\ sinceClear = {}
  /\ op = "init"
  /\ \E raw \in RawTexts, n \in 0..MaxPairs :
       inp = [NoInp EXCEPT !.raw = raw, !.n = n]
  /\ out = NoOut
  /\ calls = <<>>

Coerce ==
  /\ op = "init"
  /\ op' = "coerce"
  /\ inp' = [inp EXCEPT !.laq =
       structure_laqs_with_mistral([raises |-> FALSE, raw |-> inp.raw, n |-> inp.n])]
  /\ UNCHANGED <<program, running, exists, stale, docs, cleared, sinceClear, out, calls>>

NextCoerce == Coerce

SpecCoerce == InitCoerce /\ [][NextCoerce]_vars

\* ------------------------------------- one pair's row as a pure function
\* s[:n]
Slice(s, n) == SubSeq(s, 1, IF Len(s) < n THEN Len(s) ELSE n)

\* text = f"Q: {question}\nA: {answer}"
PairText(question, answer) ==
  <<"Q", ":", " ">> \o question \o <<"\n", "A", ":", " ">> \o answer

\* the question and answer of the metadata of collection.add
Metadata_Mut(question, answer) == [question |-> question, answer |-> answer]
Metadata(question, answer) ==
  [question |-> Slice(question, MetaLimit), answer |-> Slice(answer, MetaLimit)]

\* LAQDatabase.store_qa_pairs, one pair: the metadata with question and answer
\* cut to the limit, and the pair's full text as the document
LAQDatabase_row(question, answer) ==
  [metadata |-> [question |-> Slice(question, MetaLimit),
                 answer |-> Slice(answer, MetaLimit)],
   document |-> <<"Q", ":", " ">> \o question \o <<"\n", "A", ":", " ">> \o answer]

\* a text of the given length; its characters change along the text
TextOf(len, first) ==
  [i \in 1..len |-> IF i % 3 = 0 THEN "c" ELSE IF i % 3 = 1 THEN first ELSE "b"]

TextLens ==
  (0..TextSpan) \cup {l \in (MetaLimit - TextSpan)..(MetaLimit + TextSpan) : l >= 0}

InitRow ==
  /\ program \in {"main", "cli"}
  /\ running = TRUE
  /\ exists = TRUE
  /\ stale = FALSE
  /\ docs = {}
  /\ cleared = FALSE
  /\ sinceClear = {}
  /\ op = "init"
  /\ \E ql \in TextLens, al \in TextLens :
       inp = [NoInp EXCEPT !.question = TextOf(ql, "q"), !.answer = TextOf(al, "a")]
  /\ out = NoOut
  /\ calls = <<>>

\* the body of store_in_ChromaDB's loop for one pair: the text is embedded,
\* and unless that failed the row is handed to collection.add
StorePair ==
  /\ program = "main"
  /\ op = "init"
  /\ op' = "store_pair"
  /\ \E embFails \in BOOLEAN, addRaises \in BOOLEAN :
       LET question == inp.question
           answer == inp.answer
           text == PairText(question, answer)
       IN IF embed_text(embFails) = <<>> THEN
            /\ out' = [NoOut EXCEPT !.msg = "skipped", !.embed_input = text]
            /\ calls' = <<Call("embed", 1)>>
          ELSE IF addRaises THEN
            /\ out' = [NoOut EXCEPT !.msg = "error", !.embed_input = text]
            /\ calls' = <<Call("embed", 1), Call("add", 1)>>
          ELSE
            /\ out' = [NoOut EXCEPT !.msg = "stored", !.embed_input = text,
                         !.metadata = Metadata(question, answer),
                         !.document = text]
            /\ calls' = <<Call("embed", 1), Call("add", 1)>>
  /\ UNCHANGED <<program, running, exists, stale, docs, cleared, sinceClear, inp>>

\* one pair in CLI.upload_pdf: the text of the embedding loop, and the row
\* store_qa_pairs makes of the pair when its embedding is valid
CLI_StorePair ==
  /\ program = "cli"
  /\ op = "init"
  /\ op' = "store_pair"
  /\ \E embFails \in BOOLEAN, addRaises \in BOOLEAN :
       LET text == PairText(inp.question, inp.answer)
           row == LAQDatabase_row(inp.question, inp.answer)
       IN IF EmbeddingService_embed_text(embFails) = "EmbeddingError" THEN
            /\ out' = [NoOut EXCEPT !.msg = "no_valid_embeddings", !.embed_input = text]
            /\ calls' = <<Call("embed", 1)>>
          ELSE IF addRaises THEN
            /\ out' = [NoOut EXCEPT !.msg = "database_error", !.embed_input = text]
            /\ calls' = <<Call("embed", 1), Call("add", 1)>>
          ELSE
            /\ out' = [NoOut EXCEPT !.msg = "stored", !.embed_input = text,
                         !.metadata = row.metadata,
                         !.document = row.document]
            /\ calls' = <<Call("embed", 1), Call("add", 1)>>
  /\ UNCHANGED <<program, running, exists, stale, docs, cleared, sinceClear, inp>>

NextRow == StorePair \/ CLI_StorePair

SpecRow == InitRow /\ [][NextRow]_vars

\* ------------------------------------------------------------------ claims
NoCall(c) == \A i \in 1..Len(calls) : calls[i].c # c

\* an upload that got as far as embedding the pairs of a coerced record
Ingested == op = "upload" /\ out.msg \in {"stored", "no_valid_embeddings", "database_error"}

C2_AllFailStoresNothing ==
  (Ingested /\ inp.laq.n >= 1 /\ inp.embFail = 1..inp.laq.n) =>
    /\ out.stored = 0
    /\ out.added = {}
    /\ out.delta = 0
    /\ NoCall("add")

C2_Witness ==
  /\ Ingested
  /\ inp.laq.n >= 2
  /\ inp.embFail = 1..inp.laq.n
  /\ out.stored = 0

\* C3: when conversion yields no text, or the response is coerced into no
\* record, the upload stops there: no embedding, no add, the collection as it
\* was; after a failed conversion not even the model is asked
C3_AbortsWholeIngestion ==
  (op = "upload" /\ inp.path_ok /\ (inp.conv # "text" \/ inp.laq.kind # "dict")) =>
    /\ NoCall("embed")
    /\ NoCall("add")
    /\ out.delta = 0
    /\ out.msg \in {"conversion_failed", "no_record", "crash", "pdf_processing_error"}
    /\ inp.conv # "text" => NoCall("generate")

C3_Witness ==
  /\ op = "upload"
  /\ inp.conv = "text"
  /\ inp.laq.kind = "None"
  /\ out.msg = "no_record"
  /\ docs # {}

\* an upload whose coercion step returned a record to go on with
PastCoercion ==
  /\ op = "upload"
  /\ out.msg \notin {"file_not_found", "conversion_failed", "no_record", "crash",
                     "pdf_processing_error"}

\* C4 as stated: a record that leaves coercion has at least one pair
C4_Original == PastCoercion => inp.laq.n >= 1

\* C4 amended: main.py's coercion lets a record without pairs through; it is
\* shown, and on confirmation store_in_ChromaDB refuses it before any embedding
\* or add, so only records with at least one pair are embedded or stored
C4_Amended ==
  /\ (PastCoercion /\ inp.laq.n = 0) =>
       /\ program = "main"
       /\ out.msg \in {"not_stored", "no_pairs"}
       /\ lower(strip(inp.confirm)) = Yes => out.msg = "no_pairs"
       /\ NoCall("embed")
       /\ NoCall("add")
       /\ out.delta = 0
  /\ (op = "upload" /\ ~(NoCall("embed") /\ NoCall("add"))) => inp.laq.n >= 1

C4_Witness ==
  /\ op = "upload"
  /\ out.msg = "no_pairs"
  /\ inp.laq.kind = "dict"
  /\ inp.laq.n = 0

\* C5: embedding the N pairs of a record yields N results in the pairs' order:
\* result i is the empty failure mark exactly when pair i failed, and a failure
\* neither drops an entry nor shifts the later ones
C5_OneResultPerPair ==
  Ingested =>
    /\ Len(out.embeddings) = inp.laq.n
    /\ \A i \in 1..inp.laq.n : (out.embeddings[i] = <<>>) <=> (i \in inp.embFail)
    /\ SelectSeq(calls, LAMBDA c : c.c = "embed") = [i \in 1..inp.laq.n |-> Call("embed", i)]

C5_Witness ==
  /\ Ingested
  /\ program = "cli"
  /\ inp.laq.n = 2
  /\ inp.embFail = {1}
  /\ out.embeddings = << <<>>, <<1>> >>

\* the places of the JSON objects in a response
ObjectSpans(s) ==
  {<<i, j>> \in (1..Len(s)) \X (1..Len(s)) :
     i < j /\ s[i] = "{" /\ s[j] = "}" /\ IsObject(NoWs(SubSeq(s, i, j)))}

\* a single JSON object with prose before and/or after it
SingleObjectInProse(s) ==
  /\ Cardinality(ObjectSpans(s)) = 1
  /\ \E sp \in ObjectSpans(s) :
       strip(SubSeq(s, 1, sp[1] - 1)) # <<>> \/ strip(SubSeq(s, sp[2] + 1, Len(s))) # <<>>

TheObject(s) == LET sp == CHOOSE sp \in ObjectSpans(s) : TRUE IN SubSeq(s, sp[1], sp[2])

NoBalancedBracePair(s) ==
  ~ \E i \in 1..Len(s), j \in 1..Len(s) : i < j /\ s[i] = "{" /\ s[j] = "}"

\* C6 as stated: a single JSON object with prose around it is coerced to
\* exactly that object, and a response without a balanced brace pair is coerced
\* to nothing
C6_Original ==
  op = "coerce" =>
    /\ SingleObjectInProse(inp.raw) => inp.laq = json_loads(TheObject(inp.raw), inp.n)
    /\ NoBalancedBracePair(inp.raw) => inp.laq.kind = "None"

\* C7 as stated: of two distances the smaller has the strictly larger similarity
C7_Original ==
  (op = "rank" /\ inp.d1 < inp.d2) => out.results[1].score > out.results[2].score

\* C7 amended: the similarity is non-increasing in the distance: d1 < d2 gives
\* similarity(d1) >= similarity(d2), and strictly larger once the distances
\* differ by more than 0.0001; closer distances can round to the same score
C7_Amended ==
  (op = "rank" /\ inp.d1 < inp.d2) =>
    /\ out.results[1].score >= out.results[2].score
    /\ inp.d2 - inp.d1 > 10 => out.results[1].score > out.results[2].score

C7_Witness ==
  /\ op = "rank"
  /\ inp.d1 = 40000
  /\ inp.d2 = 40001
  /\ out.results[1].score = 6000
  /\ out.results[2].score = 6000

\* C8: every result has one quality, fixed by its similarity: strong from 80,
\* moderate from 60 to below 80, weak below 60; a similarity below 0 or above
\* 100 is kept as it is and falls in weak or strong
C8_QualityBuckets ==
  op = "rank" =>
    /\ \A i \in 1..Len(out.results) :
         LET r == out.results[i] IN
         /\ r.quality \in {"strong", "moderate", "weak"}
         /\ r.quality = "strong" <=> r.score >= 8000
         /\ r.quality = "moderate" <=> (6000 <= r.score /\ r.score < 8000)
         /\ r.quality = "weak" <=> r.score < 6000
    /\ inp.d1 > 100005 => (out.results[1].score < 0 /\ out.results[1].quality = "weak")
    /\ inp.d1 < 0 - 5 => (out.results[1].score > 10000 /\ out.results[1].quality = "strong")
    /\ inp.d1 = 5000 => (out.results[1].score = 9500 /\ out.results[1].quality = "strong")

C8_Witness ==
  /\ op = "rank"
  /\ out.results[1].score = 6000
  /\ out.results[1].quality = "moderate"
  /\ out.results[2].score = 5999
  /\ out.results[2].quality = "weak"

Blank(q) == \A i \in 1..Len(q) : q[i] = " "

\* C9: a search or chat whose query is empty or only white space fails before
\* any call to the embedding service, the vector store or the model
C9_BlankQueryFailsFast ==
  (op \in {"search", "chat"} /\ Blank(inp.query)) =>
    /\ calls = <<>>
    /\ out.msg = "empty_query"

C9_Witness ==
  /\ op = "chat"
  /\ Len(inp.query) = 2
  /\ Blank(inp.query)
  /\ out.msg = "empty_query"

\* C10 as stated: once a clear has deleted the collection, the program works
\* on the re-created collection, which holds exactly the ids added since
C10_Original ==
  cleared =>
    /\ HandleOk
    /\ docs = sinceClear

\* C11 as stated: every pair added is stored under the id made of the stem of
\* the source name, the record's laq_number and the pair's 1-based index in the
\* coerced record, whichever other pairs failed embedding, and two different
\* pairs of the document get different ids
C11_Original ==
  Ingested =>
    /\ \A p \in out.ids : p[2] = <<Stem(inp.pdf), LaqNum(inp.laq), p[1]>>
    /\ \A p \in out.ids : \A r \in out.ids : p[1] # r[1] => p[2] # r[2]

\* an ingestion in which the collection's add raised for an embedded pair
AddRaised ==
  /\ Ingested
  /\ \E i \in 1..inp.laq.n : i \notin inp.embFail /\ (~HandleOk \/ i \in inp.addFail)

\* C12 as stated: an add that fails during an ingestion ends the ingestion as a
\* failure reported to its caller, unlike an embedding failure, which is skipped
\* and counted; nothing is cleaned up, the pairs added before it stay stored
C12_Original ==
  AddRaised =>
    /\ out.msg = "database_error"
    /\ \A p \in out.ids : p[2] \in docs

\* t is s or, when s is longer than 500 characters, its first 500 characters
First500(t, s) ==
  /\ Len(t) <= 500
  /\ Len(t) = Len(s) \/ (Len(t) = 500 /\ Len(s) > 500)
  /\ \A i \in 1..Len(t) : t[i] = s[i]

\* "Q: " + question + "\nA: " + answer, character by character
FullText(t, q, a) ==
  /\ Len(t) = Len(q) + Len(a) + 7
  /\ SubSeq(t, 1, 3) = <<"Q", ":", " ">>
  /\ \A i \in 1..Len(q) : t[3 + i] = q[i]
  /\ SubSeq(t, Len(q) + 4, Len(q) + 7) = <<"\n", "A", ":", " ">>
  /\ \A i \in 1..Len(a) : t[Len(q) + 7 + i] = a[i]

\* C13: the metadata of a stored pair holds the first 500 characters of its
\* question and of its answer, while the text that was embedded and the stored
\* document are the whole "Q: " + question + "\nA: " + answer
C13_MetadataCutTextWhole ==
  (op = "store_pair" /\ out.msg = "stored") =>
    /\ First500(out.metadata.question, inp.question)
    /\ First500(out.metadata.answer, inp.answer)
    /\ FullText(out.embed_input, inp.question, inp.answer)
    /\ FullText(out.document, inp.question, inp.answer)

C13_Witness ==
  /\ op = "store_pair"
  /\ program = "main"
  /\ out.msg = "stored"
  /\ Len(inp.question) = 501
  /\ Len(inp.answer) = 499
  /\ Len(out.metadata.question) = 500
  /\ Len(out.metadata.answer) = 499
  /\ Len(out.document) = 1007

\* the answer is "yes" once trimmed and lower-cased
SaysYes(s) ==
  \E a \in 0..Len(s) :
    /\ Len(s) >= a + 3
    /\ \A i \in 1..a : s[i] = " "
    /\ s[a + 1] \in {"y", "Y"}
    /\ s[a + 2] \in {"e", "E"}
    /\ s[a + 3] \in {"s", "S"}
    /\ \A i \in (a + 4)..Len(s) : s[i] = " "

\* C14: an upload or a clear whose confirmation prompt was not answered "yes"
\* (trimmed, lower-cased) generates no embedding, issues no add and no delete,
\* and leaves the collection as it was
C14_OnlyAfterConfirmation ==
  [][(op' \in {"upload", "clear"} /\ ~SaysYes(inp'.confirm)) =>
       /\ docs' = docs
       /\ exists' = exists
       /\ stale' = stale
       /\ \A i \in 1..Len(calls') : calls'[i].c \notin {"embed", "add", "delete", "create", "clear"}]_vars

C14_Witness ==
  /\ op = "upload"
  /\ inp.confirm = <<"y">>
  /\ out.msg = "not_stored"
  /\ inp.laq.n = 2
  /\ docs # {}

\* C15 as stated: the menu loop ends only by the choice Exit or by an
\* interrupt; an upload, search, chat or clear returns to the menu whatever
\* its collaborators return or raise
C15_Original == ~running => op \in {"exit", "interrupt"}

====
